---- MODULE Spec2Model ----
(***************************************************************************)
(* Model of playwriter-in-kernel: the agent output stream decoder of       *)
(* Agent.Run (agent/cursor.go, agent/claude.go, agent/opencode.go), the    *)
(* display filter Parser.ProcessEvent (stream/parser.go) and the           *)
(* orchestration in main (main.go).                                        *)
(*                                                                         *)
(* Byte strings are sequences of atoms.  An atom stands for a run of one   *)
(* or more bytes that the model never splits: "{" is one byte, "type" is   *)
(* the four bytes t,y,p,e.  Every byte string of the model has exactly one *)
(* atomisation, so equality of atom sequences is equality of byte strings. *)
(* "\n" is the line feed byte, the two atoms "\\","n" are the JSON escape  *)
(* sequence for a line feed inside a string literal, "ESC" is byte 0x1b.   *)
(***************************************************************************)
EXTENDS Integers, Sequences, FiniteSets, TLC

(***************************************************************************)
(* Strings (package strings)                                               *)
(***************************************************************************)

\* unicode.IsSpace restricted to the bytes of the model
Space == {" ", "\n", "\t", "\r"}

RECURSIVE TrimLeft(_)
TrimLeft(s) ==
  IF s = <<>> THEN <<>>
  ELSE IF Head(s) \in Space THEN TrimLeft(Tail(s)) ELSE s

RECURSIVE TrimRight(_)
TrimRight(s) ==
  IF s = <<>> THEN <<>>
  ELSE IF s[Len(s)] \in Space THEN TrimRight(SubSeq(s, 1, Len(s) - 1)) ELSE s

\* strings.TrimSpace
TrimSpace(s) == TrimRight(TrimLeft(s))

\* strings.Contains(s, "\n\n")
ContainsNLNL(s) == \E i \in 1..(Len(s) - 1) : s[i] = "\n" /\ s[i + 1] = "\n"

\* strings.Contains(s, "\n")
ContainsNL(s) == \E i \in 1..Len(s) : s[i] = "\n"

\* strings.ReplaceAll(s, "\n\n", "\n"): non-overlapping matches, left to right
RECURSIVE ReplaceNLNL(_)
ReplaceNLNL(s) ==
  IF Len(s) < 2 THEN s
  ELSE IF s[1] = "\n" /\ s[2] = "\n"
       THEN <<"\n">> \o ReplaceNLNL(SubSeq(s, 3, Len(s)))
       ELSE <<s[1]>> \o ReplaceNLNL(Tail(s))

\* variant of CollapseNewlines that leaves blank lines in place
CollapseNewlinesOff(s) == s

\* variant of CollapseNewlines that replaces the blank lines once
CollapseNewlinesOnce(s) == ReplaceNLNL(s)

\* for strings.Contains(text, "\n\n") { text = strings.ReplaceAll(...) }
RECURSIVE CollapseNewlines(_)
CollapseNewlines(s) ==
  IF ContainsNLNL(s) THEN CollapseNewlines(ReplaceNLNL(s)) ELSE s

\* strings.ReplaceAll(code, "\n", " ")
ReplaceNLBySpace(s) == [i \in 1..Len(s) |-> IF s[i] = "\n" THEN " " ELSE s[i]]

\* strings.Join(strings.Fields(code), " "): the maximal runs of non-space
\* bytes, joined by single spaces.  A white space byte becomes the joining
\* space when it is the first of a run that has fields on both sides, and is
\* dropped otherwise.
JoinFields(s) ==
  LET joins(i) == /\ i > 1
                  /\ s[i - 1] \notin Space
                  /\ \E j \in (i + 1)..Len(s) : s[j] \notin Space
      marked == [i \in 1..Len(s) |->
                  IF s[i] \notin Space THEN s[i]
                  ELSE IF joins(i) THEN " " ELSE "dropped"]
      Kept(x) == x # "dropped"
  IN SelectSeq(marked, Kept)

(***************************************************************************)
(* encoding/json: Decoder.Decode as the Run loops use it.  One call skips  *)
(* leading white space, scans one complete JSON value from the front of    *)
(* the input, and unmarshals it into the vendor's struct.                  *)
(***************************************************************************)

\* isSpace of the JSON scanner
JSONSpace == {" ", "\n", "\t", "\r"}

\* bytes that may not occur unescaped inside a string literal (< 0x20)
ControlBytes == {"\n", "\t", "\r", "ESC"}

Digits == {"1", "2"}

NoValue == [k |-> "none", s |-> <<>>, m |-> <<>>]
ScanResult(st, v, n) == [st |-> st, val |-> v, next |-> n]
ScanEOF == ScanResult("eof", NoValue, 0)
ScanSyntax == ScanResult("syntax", NoValue, 0)

\* index of the first byte at or after i that is not white space
RECURSIVE SkipSpace(_, _)
SkipSpace(buf, i) ==
  IF i <= Len(buf) /\ buf[i] \in JSONSpace THEN SkipSpace(buf, i + 1) ELSE i

\* string literal body; i is the index after the opening quote
RECURSIVE ScanString(_, _, _)
ScanString(buf, i, acc) ==
  IF i > Len(buf) THEN ScanEOF
  ELSE IF buf[i] = "\"" THEN ScanResult("ok", [k |-> "str", s |-> acc, m |-> <<>>], i + 1)
  ELSE IF buf[i] = "\\"
       THEN IF i + 1 > Len(buf) THEN ScanEOF
            ELSE IF buf[i + 1] = "n" THEN ScanString(buf, i + 2, Append(acc, "\n"))
            ELSE IF buf[i + 1] \in {"\"", "\\"} THEN ScanString(buf, i + 2, Append(acc, buf[i + 1]))
            ELSE ScanSyntax
  ELSE IF buf[i] \in ControlBytes THEN ScanSyntax
  ELSE ScanString(buf, i + 1, Append(acc, buf[i]))

\* number literal; i is the index after the first digit
RECURSIVE ScanNumber(_, _)
ScanNumber(buf, i) ==
  IF i <= Len(buf) /\ buf[i] \in Digits THEN ScanNumber(buf, i + 1)
  ELSE ScanResult("ok", [k |-> "num", s |-> <<>>, m |-> <<>>], i)

RECURSIVE ScanValue(_, _)
RECURSIVE ScanMembers(_, _, _)
RECURSIVE ScanElems(_, _, _)

\* one JSON value starting exactly at i (no leading white space)
ScanValue(buf, i) ==
  IF i > Len(buf) THEN ScanEOF
  ELSE IF buf[i] = "{"
       THEN LET j == SkipSpace(buf, i + 1) IN
            IF j > Len(buf) THEN ScanEOF
            ELSE IF buf[j] = "}" THEN ScanResult("ok", [k |-> "obj", s |-> <<>>, m |-> <<>>], j + 1)
            ELSE ScanMembers(buf, j, <<>>)
  ELSE IF buf[i] = "["
       THEN LET j == SkipSpace(buf, i + 1) IN
            IF j > Len(buf) THEN ScanEOF
            ELSE IF buf[j] = "]" THEN ScanResult("ok", [k |-> "arr", s |-> <<>>, m |-> <<>>], j + 1)
            ELSE ScanElems(buf, j, <<>>)
  ELSE IF buf[i] = "\"" THEN ScanString(buf, i + 1, <<>>)
  ELSE IF buf[i] \in Digits THEN ScanNumber(buf, i + 1)
  ELSE IF buf[i] = "null" THEN ScanResult("ok", [k |-> "null", s |-> <<>>, m |-> <<>>], i + 1)
  ELSE ScanSyntax

\* members of an object; i is the index of the first byte of a member key
ScanMembers(buf, i, acc) ==
  IF i > Len(buf) THEN ScanEOF
  ELSE IF buf[i] # "\"" THEN ScanSyntax
  ELSE LET key == ScanString(buf, i + 1, <<>>) IN
       IF key.st # "ok" THEN key
       ELSE LET c == SkipSpace(buf, key.next) IN
            IF c > Len(buf) THEN ScanEOF
            ELSE IF buf[c] # ":" THEN ScanSyntax
            ELSE LET v == ScanValue(buf, SkipSpace(buf, c + 1)) IN
                 IF v.st # "ok" THEN v
                 ELSE LET e == SkipSpace(buf, v.next)
                          acc2 == Append(acc, [key |-> key.val.s, val |-> v.val])
                      IN IF e > Len(buf) THEN ScanEOF
                         ELSE IF buf[e] = "}"
                              THEN ScanResult("ok", [k |-> "obj", s |-> <<>>, m |-> acc2], e + 1)
                         ELSE IF buf[e] = ","
                              THEN ScanMembers(buf, SkipSpace(buf, e + 1), acc2)
                         ELSE ScanSyntax

\* elements of an array; i is the index of the first byte of an element
ScanElems(buf, i, acc) ==
  LET v == ScanValue(buf, i) IN
  IF v.st # "ok" THEN v
  ELSE LET e == SkipSpace(buf, v.next)
           acc2 == Append(acc, [key |-> <<>>, val |-> v.val])
       IN IF e > Len(buf) THEN ScanEOF
          ELSE IF buf[e] = "]"
               THEN ScanResult("ok", [k |-> "arr", s |-> <<>>, m |-> acc2], e + 1)
          ELSE IF buf[e] = ","
               THEN ScanElems(buf, SkipSpace(buf, e + 1), acc2)
          ELSE ScanSyntax

\* Decoder.readValue from byte offset off (0-based): the value and the
\* offset after it (Decoder.InputOffset)
ReadValue(buf, off) ==
  LET i == SkipSpace(buf, off + 1)
      r == ScanValue(buf, i)
  IN IF r.st = "ok" THEN ScanResult("ok", r.val, r.next - 1) ELSE r

(***************************************************************************)
(* Unmarshalling a JSON value into a Go struct.  A member the struct does  *)
(* not name is ignored, null leaves the field at its zero value, a value   *)
(* of the wrong JSON type leaves the field at its zero value and makes     *)
(* Decode return an *UnmarshalTypeError.                                   *)
(***************************************************************************)

\* the value of the member named key (the last one wins), NoValue if absent
RECURSIVE Member(_, _, _)
Member(m, key, i) ==
  IF i = 0 THEN NoValue
  ELSE IF m[i].key = key THEN m[i].val ELSE Member(m, key, i - 1)

Field(v, key) == IF v.k = "obj" THEN Member(v.m, key, Len(v.m)) ELSE NoValue

Absent(v) == v.k \in {"none", "null"}

\* a string field
StrVal(v) == IF v.k = "str" THEN v.s ELSE <<>>
StrErr(v) == ~Absent(v) /\ v.k # "str"

\* a struct field
ObjErr(v) == ~Absent(v) /\ v.k # "obj"

(***************************************************************************)
(* agent.StreamEvent and its decoding (vendors cursor and claude)          *)
(***************************************************************************)

\* the zero value of agent.StreamEvent
ZeroEvent ==
  [Type |-> <<>>, Subtype |-> <<>>, Content |-> <<>>,
   Name |-> <<>>, ToolName |-> <<>>, Code |-> <<>>]

\* one element of StreamEvent.Message.Content
ContentElem(v) == [Type |-> StrVal(Field(v, <<"type">>)), Text |-> StrVal(Field(v, <<"text">>))]
ContentElemErr(v) ==
  \/ ObjErr(v)
  \/ StrErr(Field(v, <<"type">>))
  \/ StrErr(Field(v, <<"text">>))

\* StreamEvent.Message.Content: a JSON array gives one element per entry
ContentVal(v) == IF v.k = "arr" THEN [i \in 1..Len(v.m) |-> ContentElem(v.m[i].val)] ELSE <<>>
ContentErr(v) ==
  \/ ~Absent(v) /\ v.k # "arr"
  \/ v.k = "arr" /\ \E i \in 1..Len(v.m) : ContentElemErr(v.m[i].val)

\* json.Decoder.Decode(&streamEvent) after readValue: the struct and whether
\* Decode returns an error
UnmarshalStreamEvent(v) ==
  LET msg == Field(v, <<"mess", "age">>)
      content == Field(msg, <<"content">>)
      tc == Field(v, <<"tool_call">>)
      mcp == Field(tc, <<"mcpToolCall">>)
      args == Field(mcp, <<"args">>)
      inner == Field(args, <<"args">>)
  IN [ev |-> [Type |-> StrVal(Field(v, <<"type">>)),
              Subtype |-> StrVal(Field(v, <<"subtype">>)),
              Content |-> ContentVal(content),
              Name |-> StrVal(Field(args, <<"name">>)),
              ToolName |-> StrVal(Field(args, <<"toolName">>)),
              Code |-> StrVal(Field(inner, <<"code">>))],
      err |-> \/ ObjErr(v)
              \/ StrErr(Field(v, <<"type">>))
              \/ StrErr(Field(v, <<"subtype">>))
              \/ ObjErr(msg) \/ ContentErr(content)
              \/ ObjErr(tc) \/ ObjErr(mcp) \/ ObjErr(args) \/ ObjErr(inner)
              \/ StrErr(Field(args, <<"name">>))
              \/ StrErr(Field(args, <<"toolName">>))
              \/ StrErr(Field(inner, <<"code">>))]

(***************************************************************************)
(* agent.OpenCodeStreamEvent, its decoding and convertEvent                *)
(***************************************************************************)

\* an int64 field
NumErr(v) == ~Absent(v) /\ v.k # "num"

UnmarshalOpenCodeEvent(v) ==
  LET part == Field(v, <<"part">>)
      state == Field(part, <<"state">>)
      input == Field(state, <<"input">>)
  IN [ev |-> [Type |-> StrVal(Field(v, <<"type">>)),
              Text |-> StrVal(Field(part, <<"text">>)),
              Tool |-> StrVal(Field(part, <<"tool">>)),
              Status |-> StrVal(Field(state, <<"status">>)),
              Code |-> StrVal(Field(input, <<"code">>))],
      err |-> \/ ObjErr(v)
              \/ StrErr(Field(v, <<"type">>))
              \/ NumErr(Field(v, <<"timestamp">>))
              \/ StrErr(Field(v, <<"sessionID">>))
              \/ ObjErr(part) \/ ObjErr(state) \/ ObjErr(input)
              \/ StrErr(Field(part, <<"id">>))
              \/ StrErr(Field(part, <<"type">>))
              \/ StrErr(Field(part, <<"text">>))
              \/ StrErr(Field(part, <<"tool">>))
              \/ StrErr(Field(state, <<"status">>))
              \/ StrErr(Field(input, <<"code">>))]
\* variant of convertEvent that copies the text for every type
convertEventKeepsText(oc) ==
  IF oc.Type = <<"tool_use">>
  THEN [ZeroEvent EXCEPT !.Type = <<"tool_call">>,
                         !.Subtype = IF oc.Status # <<"completed">> THEN <<"started">> ELSE <<>>,
                         !.Name = oc.Tool,
                         !.Code = oc.Code]
  ELSE [ZeroEvent EXCEPT !.Type = IF oc.Type = <<"text">> THEN <<"assistant">> ELSE oc.Type,
                         !.Content = IF oc.Text # <<>>
                                     THEN <<[Type |-> <<"text">>, Text |-> oc.Text]>>
                                     ELSE <<>>]

\* variant of convertEvent that marks every tool_use event as started
convertEventStartsAll(oc) ==
  IF oc.Type = <<"text">>
  THEN [ZeroEvent EXCEPT !.Type = <<"assistant">>,
                         !.Content = IF oc.Text # <<>>
                                     THEN <<[Type |-> <<"text">>, Text |-> oc.Text]>>
                                     ELSE <<>>]
  ELSE IF oc.Type = <<"tool_use">>
  THEN [ZeroEvent EXCEPT !.Type = <<"tool_call">>,
                         !.Subtype = <<"started">>,
                         !.Name = oc.Tool,
                         !.Code = oc.Code]
  ELSE [ZeroEvent EXCEPT !.Type = oc.Type]

convertEvent(oc) ==
  IF oc.Type = <<"text">>
  THEN [ZeroEvent EXCEPT !.Type = <<"assistant">>,
                         !.Content = IF oc.Text # <<>>
                                     THEN <<[Type |-> <<"text">>, Text |-> oc.Text]>>
                                     ELSE <<>>]
  ELSE IF oc.Type = <<"tool_use">>
  THEN [ZeroEvent EXCEPT !.Type = <<"tool_call">>,
                         !.Subtype = IF oc.Status # <<"completed">> THEN <<"started">> ELSE <<>>,
                         !.Name = oc.Tool,
                         !.Code = oc.Code]
  ELSE [ZeroEvent EXCEPT !.Type = oc.Type]

Vendors == {"cursor", "claude", "opencode"}

\* what one successful Decode of the vendor's Run loop hands to the handler
DecodeFor(vendor, v) ==
  IF vendor = "opencode"
  THEN LET u == UnmarshalOpenCodeEvent(v) IN [ev |-> convertEvent(u.ev), err |-> u.err]
  ELSE UnmarshalStreamEvent(v)

(***************************************************************************)
(* stream.Parser.ProcessEvent                                              *)
(***************************************************************************)

TruncLimit == 80
TruncKeep == 77
Ellipsis == <<".", ".", ".">>

\* variant of CodePreview that keeps 80 bytes before the ellipsis
CodePreviewKeepsLimit(code) ==
  LET c == JoinFields(ReplaceNLBySpace(code)) IN
  IF Len(c) > TruncLimit THEN SubSeq(c, 1, TruncLimit) \o Ellipsis ELSE c

\* the code preview of a tool_call line
CodePreview(code) ==
  LET c == JoinFields(ReplaceNLBySpace(code)) IN
  IF Len(c) > TruncLimit THEN SubSeq(c, 1, TruncKeep) \o Ellipsis ELSE c

\* variant of ToolLines that prefers the toolName field
ToolLinesPrefersToolName(event) ==
  IF event.Subtype # <<"started">> THEN <<>>
  ELSE LET toolName == IF event.ToolName = <<>> THEN event.Name ELSE event.ToolName IN
       IF toolName = <<>> THEN <<>>
       ELSE IF event.Code # <<>>
            THEN <<[style |-> "tool_code", head |-> toolName, body |-> CodePreview(event.Code)]>>
            ELSE <<[style |-> "tool", head |-> toolName, body |-> <<>>]>>

\* case "tool_call": the lines printed
ToolLines(event) ==
  IF event.Subtype # <<"started">> THEN <<>>
  ELSE LET toolName == IF event.Name = <<>> THEN event.ToolName ELSE event.Name IN
       IF toolName = <<>> THEN <<>>
       ELSE IF event.Code # <<>>
            THEN <<[style |-> "tool_code", head |-> toolName, body |-> CodePreview(event.Code)]>>
            ELSE <<[style |-> "tool", head |-> toolName, body |-> <<>>]>>

\* variant of AssistantLines that shows the later fragment first
RECURSIVE AssistantLinesPrepended(_, _, _, _)
AssistantLinesPrepended(content, i, last, acc) ==
  IF i > Len(content) THEN [lines |-> acc, last |-> last]
  ELSE LET text == TrimSpace(content[i].Text) IN
       IF text # <<>> /\ text # last
       THEN LET shown == CollapseNewlines(text) IN
            AssistantLinesPrepended(content, i + 1, shown,
              <<[style |-> IF ContainsNL(shown) THEN "block" ELSE "marker",
                 head |-> <<>>, body |-> shown]>> \o acc)
       ELSE AssistantLinesPrepended(content, i + 1, last, acc)

\* variant of AssistantLines that remembers the text as it was before the
\* newline runs were collapsed
RECURSIVE AssistantLinesKeepsRaw(_, _, _, _)
AssistantLinesKeepsRaw(content, i, last, acc) ==
  IF i > Len(content) THEN [lines |-> acc, last |-> last]
  ELSE LET text == TrimSpace(content[i].Text) IN
       IF text # <<>> /\ text # last
       THEN LET shown == CollapseNewlines(text) IN
            AssistantLinesKeepsRaw(content, i + 1, text,
              Append(acc, [style |-> IF ContainsNL(shown) THEN "block" ELSE "marker",
                           head |-> <<>>, body |-> shown]))
       ELSE AssistantLinesKeepsRaw(content, i + 1, last, acc)

\* case "assistant": the loop over event.Message.Content from element i on;
\* the lines printed and the final lastPrintedMessage
RECURSIVE AssistantLines(_, _, _, _)
AssistantLines(content, i, last, acc) ==
  IF i > Len(content) THEN [lines |-> acc, last |-> last]
  ELSE LET text == TrimSpace(content[i].Text) IN
       IF text # <<>> /\ text # last
       THEN LET shown == CollapseNewlines(text) IN
            AssistantLines(content, i + 1, shown,
              Append(acc, [style |-> IF ContainsNL(shown) THEN "block" ELSE "marker",
                           head |-> <<>>, body |-> shown]))
       ELSE AssistantLines(content, i + 1, last, acc)

\* variant of ProcessEvent that does not skip user events
ProcessEventShowsUser(event, last) ==
  IF event.Type \in {<<"system">>, <<"thinking">>, <<"result">>}
  THEN [lines |-> <<>>, last |-> last]
  ELSE IF event.Type = <<"tool_call">>
  THEN [lines |-> ToolLines(event), last |-> last]
  ELSE IF event.Type \in {<<"assistant">>, <<"user">>}
  THEN AssistantLines(event.Content, 1, last, <<>>)
  ELSE [lines |-> <<>>, last |-> last]

\* ProcessEvent: the lines it prints and lastPrintedMessage afterwards
ProcessEvent(event, last) ==
  IF event.Type \in {<<"system">>, <<"user">>, <<"thinking">>, <<"result">>}
  THEN [lines |-> <<>>, last |-> last]
  ELSE IF event.Type = <<"tool_call">>
  THEN [lines |-> ToolLines(event), last |-> last]
  ELSE IF event.Type = <<"assistant">>
  THEN AssistantLines(event.Content, 1, last, <<>>)
  ELSE [lines |-> <<>>, last |-> last]

(***************************************************************************)
(* The agent's output: what the remote process writes to its PTY           *)
(***************************************************************************)

Str(s) == <<"\"">> \o s \o <<"\"">>
KV(key, val) == Str(key) \o <<":">> \o val
Obj1(a) == <<"{">> \o a \o <<"}">>
Obj2(a, b) == <<"{">> \o a \o <<",">> \o b \o <<"}">>
Obj3(a, b, c) == <<"{">> \o a \o <<",">> \o b \o <<",">> \o c \o <<"}">>
Arr1(a) == <<"[">> \o a \o <<"]">>

TypeIs(t) == KV(<<"type">>, Str(<<t>>))

\* the text Hi, blank line, there, as a JSON string literal
HiThere == Str(<<"Hi", "\\", "n", "\\", "n", "there">>)
\* two lines of code, as a JSON string literal
CodeAB == Str(<<"a", "\\", "n", "b">>)

\* cursor-agent / claude --output-format stream-json
WireA(item) ==
  CASE item = "result" -> Obj1(TypeIs("result"))
    [] item = "assistant" ->
         Obj2(TypeIs("assistant"),
              KV(<<"mess", "age">>,
                 Obj1(KV(<<"content">>, Arr1(Obj1(KV(<<"text">>, HiThere)))))))
    [] item = "short" ->
         Obj2(TypeIs("assistant"),
              KV(<<"mess", "age">>,
                 Obj1(KV(<<"content">>,
                         Arr1(Obj1(KV(<<"text">>, Str(<<"a">>))) \o <<",">> \o
                              Obj1(KV(<<"text">>, Str(<<"b">>))))))))
    [] item = "tool" ->
         Obj3(TypeIs("tool_call"), KV(<<"subtype">>, Str(<<"started">>)),
              KV(<<"tool_call">>,
                 Obj1(KV(<<"mcpToolCall">>,
                   Obj1(KV(<<"args">>,
                     Obj2(KV(<<"toolName">>, Str(<<"x">>)),
                          KV(<<"args">>, Obj1(KV(<<"code">>, CodeAB))))))))))
    [] item = "payload" ->
         Obj2(TypeIs("user"),
              KV(<<"mess", "age">>,
                 Obj1(KV(<<"content">>, Arr1(Obj1(KV(<<"text">>, Str(<<"a">>))))))))
    [] item = "unknown" ->
         Obj2(TypeIs("status"),
              KV(<<"mess", "age">>,
                 Obj1(KV(<<"content">>, Arr1(Obj1(KV(<<"text">>, Str(<<"a">>))))))))
    [] item = "badtype" -> Obj1(KV(<<"type">>, <<"1">>))
    [] item = "number" -> <<"1", "2">>
    [] item = "newline" -> <<"\r", "\n">>
    [] item = "control" -> <<"ESC", "[", "?", "2", "5", "h">>

\* opencode run --format json
WireC(item) ==
  CASE item = "result" -> Obj1(TypeIs("result"))
    [] item = "assistant" ->
         Obj2(TypeIs("text"), KV(<<"part">>, Obj1(KV(<<"text">>, HiThere))))
    [] item = "short" ->
         Obj2(TypeIs("text"), KV(<<"part">>, Obj1(KV(<<"text">>, Str(<<"a">>)))))
    [] item = "tool" ->
         Obj2(TypeIs("tool_use"),
              KV(<<"part">>,
                 Obj2(KV(<<"tool">>, Str(<<"x">>)),
                      KV(<<"state">>,
                         Obj2(KV(<<"status">>, Str(<<"running">>)),
                              KV(<<"input">>, Obj1(KV(<<"code">>, CodeAB))))))))
    [] item = "payload" ->
         Obj2(TypeIs("user"),
              KV(<<"part">>, Obj2(KV(<<"text">>, Str(<<"a">>)), KV(<<"tool">>, Str(<<"x">>)))))
    [] item = "unknown" ->
         Obj3(TypeIs("status"), KV(<<"timestamp">>, <<"1", "2">>),
              KV(<<"part">>, Obj1(KV(<<"text">>, Str(<<"a">>)))))
    [] item = "badtype" -> Obj1(KV(<<"type">>, <<"1">>))
    [] item = "number" -> <<"1", "2">>
    [] item = "newline" -> <<"\r", "\n">>
    [] item = "control" -> <<"ESC", "[", "?", "2", "5", "h">>

Wire(vendor, item) == IF vendor = "opencode" THEN WireC(item) ELSE WireA(item)

\* JSON objects that fit the vendor's struct
GoodObjects == {"result", "assistant", "short", "tool", "payload", "unknown"}
\* complete JSON values that do not fit the vendor's struct
BadValues == {"badtype", "number"}
\* PTY artefacts between the values
Artefacts == {"newline", "control"}
Items == GoodObjects \cup BadValues \cup Artefacts

RECURSIVE WireOf(_, _)
WireOf(vendor, items) ==
  IF items = <<>> THEN <<>> ELSE Wire(vendor, Head(items)) \o WireOf(vendor, Tail(items))

(***************************************************************************)
(* State                                                                   *)
(***************************************************************************)

VARIABLES
  pc,                  \* where the program is
  agentName,           \* -agent
  sessionGiven,        \* -s was given
  failing,             \* the step of main the execution environment fails, "none" for none
  deleteBrowser,       \* -d
  timeoutSet,          \* -agent-timeout > 0
  created,             \* main: the session was created by this invocation
  cleanupDeferred,     \* main: the deferred DeleteByID is registered
  sessionDeleted,      \* the browser session has been deleted
  exitStatus,          \* the status the process ended with, -1 while it runs
  vendor,              \* the agent whose Run is executing
  items,               \* what the remote agent process writes, as catalogue items
  wire,                \* the bytes of it not yet streamed to Run
  deadline,            \* the context of Run has passed its deadline
  jsonBuffer,          \* Run: jsonBuffer
  exitCode,            \* Run: exitCode
  exitSignal,          \* the exit code the exit event carried, -1 before it
  arg,                 \* the argument of the function a pure-function run applies
  ret,                 \* what that function returned and echoed
  handled,             \* the handler calls so far: event, lines printed, lastPrintedMessage after
  lastPrintedMessage,  \* Parser.lastPrintedMessage
  runCode,             \* Run's returned exit code
  runErr               \* Run's returned error: "nil", "spawn" or "stream"

\* ret before the function has returned
NoReturn == [ok |-> FALSE, echo |-> <<>>]

vars ==
  <<pc, agentName, sessionGiven, failing, deleteBrowser, timeoutSet, created, cleanupDeferred,
    sessionDeleted, exitStatus, vendor, items, wire, deadline, jsonBuffer, exitCode,
    exitSignal, arg, ret, handled, lastPrintedMessage, runCode, runErr>>

mainVars == <<agentName, sessionGiven, failing, deleteBrowser, timeoutSet, created,
              cleanupDeferred, sessionDeleted, exitStatus>>
callVars == <<arg, ret>>
inputVars == <<vendor, items, callVars>>
runVars == <<wire, deadline, jsonBuffer, exitCode, exitSignal, handled,
             lastPrintedMessage, runCode, runErr>>

(***************************************************************************)
(* Agent.Run: the decode loop                                              *)
(***************************************************************************)

\* for { if err := decoder.Decode(&ev); err != nil { break }; handler(ev);
\* consumed = int(decoder.InputOffset()) } from offset off on: the events
\* handed to the handler and the final value of consumed
RECURSIVE DecodeLoop(_, _, _, _)
DecodeLoop(v, buf, off, evs) ==
  LET r == ReadValue(buf, off) IN
  IF r.st # "ok" THEN [events |-> evs, consumed |-> off]
  ELSE LET u == DecodeFor(v, r.val) IN
       IF u.err THEN [events |-> evs, consumed |-> off]
       ELSE DecodeLoop(v, buf, r.next, Append(evs, u.ev))

\* the handler main passes to Run, called for each event of evs in turn
RECURSIVE HandleAll(_, _, _)
HandleAll(evs, h, last) ==
  IF evs = <<>> THEN [handled |-> h, last |-> last]
  ELSE LET p == ProcessEvent(Head(evs), last) IN
       HandleAll(Tail(evs),
                 Append(h, [ev |-> Head(evs), lines |-> p.lines, last |-> p.last]),
                 p.last)

\* variant of KeepUnparsed that trims the buffer it keeps
KeepUnparsedTrimmed(buf, consumed) ==
  IF consumed > 0 THEN SubSeq(buf, consumed + 1, Len(buf)) ELSE TrimLeft(buf)

\* variant of KeepUnparsed that leaves the parsed objects in the buffer
KeepUnparsedWhole(buf, consumed) == buf

\* if consumed > 0 { remaining := jsonBuffer.String()[consumed:] ... }
KeepUnparsed(buf, consumed) ==
  IF consumed > 0 THEN SubSeq(buf, consumed + 1, Len(buf)) ELSE buf

\* variant of Spawn that tries again after a failure
SpawnRetried ==
  /\ pc = "spawn"
  /\ \/ /\ ~deadline
        /\ pc' = "streaming"
        /\ wire' = WireOf(vendor, items)
        /\ UNCHANGED <<runCode, runErr>>
     \/ /\ pc' = "spawn"
        /\ runCode' = 1
        /\ runErr' = "spawn"
        /\ UNCHANGED wire
  /\ UNCHANGED <<mainVars, inputVars, deadline, jsonBuffer, exitCode, exitSignal,
                 handled, lastPrintedMessage>>

\* client.Browsers.Process.Spawn; on success the remote process starts and
\* writes its output
Spawn ==
  /\ pc = "spawn"
  /\ \/ /\ ~deadline
        /\ pc' = "streaming"
        /\ wire' = WireOf(vendor, items)
        /\ UNCHANGED <<runCode, runErr>>
     \/ /\ pc' = "returned"
        /\ runCode' = 1
        /\ runErr' = "spawn"
        /\ UNCHANGED wire
  /\ UNCHANGED <<mainVars, inputVars, deadline, jsonBuffer, exitCode, exitSignal,
                 handled, lastPrintedMessage>>

\* the deadline of context.WithTimeout passes while Run is executing
Deadline ==
  /\ pc \in {"spawn", "streaming"}
  /\ timeoutSet
  /\ ~deadline
  /\ deadline' = TRUE
  /\ UNCHANGED <<pc, mainVars, inputVars, wire, jsonBuffer, exitCode, exitSignal,
                 handled, lastPrintedMessage, runCode, runErr>>

\* the body of if event.DataB64 != "" { ... } for the decoded bytes data: the
\* buffer, the handler calls and lastPrintedMessage afterwards
Feed(v, buf, data, h, last) ==
  LET d == DecodeLoop(v, buf \o data, 0, <<>>)
      r == HandleAll(d.events, h, last)
  IN [buffer |-> KeepUnparsed(buf \o data, d.consumed), handled |-> r.handled, last |-> r.last]

\* stream.Next() delivers a data event with the next n bytes of the output
StreamData(n) ==
  /\ pc = "streaming"
  /\ ~deadline
  /\ \E f \in {Feed(vendor, jsonBuffer, SubSeq(wire, 1, n), handled, lastPrintedMessage)} :
        /\ jsonBuffer' = f.buffer
        /\ handled' = f.handled
        /\ lastPrintedMessage' = f.last
  /\ wire' = SubSeq(wire, n + 1, Len(wire))
  /\ UNCHANGED <<pc, mainVars, inputVars, deadline, exitCode, exitSignal, runCode, runErr>>

\* the final parse of jsonBuffer after the streaming loop: the handler calls
\* and lastPrintedMessage afterwards
Flush(v, buf, h, last) ==
  HandleAll(DecodeLoop(v, buf, 0, <<>>).events, h, last)

\* the code after the streaming loop: the final parse, then stream.Err()
\* decides what Run returns
Finish(code, err) ==
  /\ \E f \in {Flush(vendor, jsonBuffer, handled, lastPrintedMessage)} :
        /\ handled' = f.handled
        /\ lastPrintedMessage' = f.last
  /\ runCode' = IF err = "nil" THEN code ELSE 1
  /\ runErr' = err
  /\ pc' = "returned"

\* variant of StreamExit that decodes the data the exit event carries
StreamExitReadsData(c) ==
  /\ pc = "streaming"
  /\ ~deadline
  /\ exitCode' = c
  /\ exitSignal' = c
  /\ \E f \in {Feed(vendor, jsonBuffer, wire, handled, lastPrintedMessage)} :
        /\ handled' = f.handled
        /\ lastPrintedMessage' = f.last
  /\ runCode' = c
  /\ runErr' = "nil"
  /\ pc' = "returned"
  /\ UNCHANGED <<mainVars, inputVars, wire, deadline, jsonBuffer>>

\* stream.Next() delivers the exit event with exit code c; the bytes of the
\* output not delivered before it (wire) are those the exit event itself or a
\* later event carries
StreamExit(c) ==
  /\ pc = "streaming"
  /\ ~deadline
  /\ exitCode' = c
  /\ exitSignal' = c
  /\ Finish(c, "nil")
  /\ UNCHANGED <<mainVars, inputVars, wire, deadline, jsonBuffer>>

\* stream.Next() returns false and stream.Err() is nil: the stream ended
\* without an exit event
StreamEnd ==
  /\ pc = "streaming"
  /\ ~deadline
  /\ Finish(exitCode, "nil")
  /\ UNCHANGED <<mainVars, inputVars, wire, deadline, jsonBuffer, exitCode, exitSignal>>

\* variant of StreamError that returns the stream's error as nil
StreamErrorDropped ==
  /\ pc = "streaming"
  /\ Finish(exitCode, "nil")
  /\ UNCHANGED <<mainVars, inputVars, wire, deadline, jsonBuffer, exitCode, exitSignal>>

\* stream.Next() returns false and stream.Err() is not nil: a transport
\* failure, or the context's deadline has passed
StreamError ==
  /\ pc = "streaming"
  /\ Finish(exitCode, "stream")
  /\ UNCHANGED <<mainVars, inputVars, wire, deadline, jsonBuffer, exitCode, exitSignal>>

(***************************************************************************)
(* main                                                                    *)
(***************************************************************************)

AgentNames == {"cursor", "claude", "opencode", "gemini"}

\* getAgent: the agent for a name, "" for the error return
getAgent(name) ==
  IF name = "cursor" THEN "cursor"
  ELSE IF name = "claude" THEN "claude"
  ELSE ""

\* os.Exit(status)
Exit(status) ==
  /\ pc' = "exited"
  /\ exitStatus' = status

\* the calls of main whose error ends the program, one of which the
\* execution environment may fail
Failures == {"none", "get", "setup", "install", "playwriter", "relay", "mcp"}

\* a step of main that either succeeds and goes on to next or, when its call
\* returns an error, ends with os.Exit(1)
Step(here, next) ==
  /\ pc = here
  /\ IF failing = here
     THEN Exit(1)
     ELSE /\ pc' = next
          /\ UNCHANGED exitStatus

\* flag.Parse to kernel.NewClient: the usage and environment checks, getAgent
MainStart ==
  /\ pc = "main"
  /\ \/ /\ getAgent(agentName) # ""
        /\ vendor' = getAgent(agentName)
        /\ pc' = IF sessionGiven THEN "get" ELSE "setup"
        /\ UNCHANGED exitStatus
     \/ /\ Exit(1)
        /\ UNCHANGED vendor
  /\ UNCHANGED <<agentName, sessionGiven, failing, deleteBrowser, timeoutSet, created,
                 cleanupDeferred, sessionDeleted, items, callVars, runVars>>

\* variant of DeferCleanup that does not test created
DeferCleanupAlways(c) == deleteBrowser

\* if created && *deleteBrowser { defer ... }
DeferCleanup(c) == c /\ deleteBrowser

\* -s: client.Browsers.Get
GetSession ==
  /\ Step("get", "activate")
  /\ cleanupDeferred' = (pc' = "activate" /\ DeferCleanup(created))
  /\ UNCHANGED <<agentName, sessionGiven, failing, deleteBrowser, timeoutSet, created,
                 sessionDeleted, inputVars, runVars>>

\* browser.Setup up to client.Browsers.New: an error makes Setup return it
\* and main exit
BrowserSetup ==
  /\ Step("setup", "pin")
  /\ UNCHANGED <<agentName, sessionGiven, failing, deleteBrowser, timeoutSet, created,
                 cleanupDeferred, sessionDeleted, inputVars, runVars>>

\* the rest of browser.Setup: pinExtension, whose error is printed as a
\* warning only, so that both of its outcomes go on alike, and the restart of
\* the browser; Setup returns the result and main sets created
PinExtension ==
  /\ pc = "pin"
  /\ pc' = "install"
  /\ created' = TRUE
  /\ UNCHANGED <<agentName, sessionGiven, failing, deleteBrowser, timeoutSet,
                 cleanupDeferred, sessionDeleted, exitStatus, inputVars, runVars>>

\* ag.Install
AgentInstall ==
  /\ Step("install", "playwriter")
  /\ UNCHANGED <<agentName, sessionGiven, failing, deleteBrowser, timeoutSet, created,
                 cleanupDeferred, sessionDeleted, inputVars, runVars>>

\* browser.InstallPlaywriterFromSource
PlaywriterInstall ==
  /\ Step("playwriter", "relay")
  /\ UNCHANGED <<agentName, sessionGiven, failing, deleteBrowser, timeoutSet, created,
                 cleanupDeferred, sessionDeleted, inputVars, runVars>>

\* browser.StartPlaywriterRelay
RelayStart ==
  /\ Step("relay", "mcp")
  /\ UNCHANGED <<agentName, sessionGiven, failing, deleteBrowser, timeoutSet, created,
                 cleanupDeferred, sessionDeleted, inputVars, runVars>>

\* variant of ConfigureMCP that goes on when ag.ConfigureMCP returns an error
ConfigureMCPUnchecked ==
  /\ pc = "mcp"
  /\ pc' = "activate"
  /\ cleanupDeferred' = DeferCleanup(created)
  /\ UNCHANGED <<agentName, sessionGiven, failing, deleteBrowser, timeoutSet, created,
                 sessionDeleted, exitStatus, inputVars, runVars>>

\* ag.ConfigureMCP, then the registration of the deferred cleanup
ConfigureMCP ==
  /\ Step("mcp", "activate")
  /\ cleanupDeferred' = (pc' = "activate" /\ DeferCleanup(created))
  /\ UNCHANGED <<agentName, sessionGiven, failing, deleteBrowser, timeoutSet, created,
                 sessionDeleted, inputVars, runVars>>

\* if browser.IsPlaywriterConnected(...): when the extension is reported as
\* connected main goes on to ag.Run, otherwise to browser.ActivatePlaywriter
Activate ==
  /\ pc = "activate"
  /\ pc' \in {"spawn", "click"}
  /\ UNCHANGED <<mainVars, inputVars, runVars>>

\* browser.ActivatePlaywriter: the click on the extension icon, whose result
\* is not inspected; then ag.Run is entered
ActivatePlaywriter ==
  /\ pc = "click"
  /\ pc' = "spawn"
  /\ UNCHANGED <<mainVars, inputVars, runVars>>

\* the deferred functions main runs when it returns: client.Browsers.DeleteByID
RunDeferred == cleanupDeferred \/ sessionDeleted

\* variant of MainAfterRun that exits with status 1 for every nonzero code
MainAfterRunFlat ==
  /\ pc = "returned"
  /\ pc' = "exited"
  /\ IF runErr # "nil" \/ runCode # 0
     THEN /\ exitStatus' = 1
          /\ UNCHANGED sessionDeleted
     ELSE /\ exitStatus' = 0
          /\ sessionDeleted' = RunDeferred
  /\ UNCHANGED <<agentName, sessionGiven, failing, deleteBrowser, timeoutSet, created,
                 cleanupDeferred, inputVars, runVars>>

\* main after ag.Run has returned
MainAfterRun ==
  /\ pc = "returned"
  /\ pc' = "exited"
  /\ IF runErr # "nil"
     THEN /\ exitStatus' = 1
          /\ UNCHANGED sessionDeleted
     ELSE IF runCode # 0
     THEN /\ exitStatus' = runCode
          /\ UNCHANGED sessionDeleted
     ELSE /\ exitStatus' = 0
          /\ sessionDeleted' = RunDeferred
  /\ UNCHANGED <<agentName, sessionGiven, failing, deleteBrowser, timeoutSet, created,
                 cleanupDeferred, inputVars, runVars>>

(***************************************************************************)
(* Specifications                                                          *)
(***************************************************************************)

\* the most values of the agent's output in one run
MaxItems == 2
\* the same, for the runs started from main
MaxMainItems == 1

ExitCodes == {0, 1, 2, 255}

\* the most bytes of the agent's output in one run
MaxWire == 74

Streams(n) == UNION {[1..k -> Items] : k \in 0..n}

\* the outputs of at most n values and at most MaxWire bytes
Outputs(v, n) == {s \in Streams(n) : Len(WireOf(v, s)) <= MaxWire}

RunInit ==
  /\ wire = <<>>
  /\ deadline = FALSE
  /\ jsonBuffer = <<>>
  /\ exitCode = 0
  /\ exitSignal = -1
  /\ arg = <<>>
  /\ ret = NoReturn
  /\ handled = <<>>
  /\ lastPrintedMessage = <<>>
  /\ runCode = 0
  /\ runErr = "nil"

\* the program: main from its first statement
Init ==
  /\ pc = "main"
  /\ agentName \in AgentNames
  /\ sessionGiven \in BOOLEAN
  /\ failing \in IF sessionGiven THEN {"none", "get"} ELSE Failures \ {"get"}
  /\ deleteBrowser \in BOOLEAN
  /\ timeoutSet \in BOOLEAN
  /\ created = FALSE
  /\ cleanupDeferred = FALSE
  /\ sessionDeleted = FALSE
  /\ exitStatus = -1
  /\ vendor = ""
  /\ items \in IF getAgent(agentName) = "" THEN {<<>>}
              ELSE Outputs(getAgent(agentName), MaxMainItems)
  /\ wire = <<>>
  /\ deadline = FALSE
  /\ jsonBuffer = <<>>
  /\ exitCode = 0
  /\ exitSignal = -1
  /\ arg = <<>>
  /\ ret = NoReturn
  /\ handled = <<>>
  /\ lastPrintedMessage = <<>>
  /\ runCode = 0
  /\ runErr = "nil"

RunNext ==
  \/ Spawn
  \/ \E n \in 1..Len(wire) : StreamData(n)
  \/ \E c \in ExitCodes : StreamExit(c)
  \/ StreamEnd
  \/ StreamError

Next ==
  \/ MainStart
  \/ GetSession
  \/ BrowserSetup
  \/ PinExtension
  \/ AgentInstall
  \/ PlaywriterInstall
  \/ RelayStart
  \/ ConfigureMCP
  \/ Activate
  \/ ActivatePlaywriter
  \/ Deadline
  \/ RunNext
  \/ MainAfterRun

Spec == Init /\ [][Next]_vars

\* Agent.Run of any of the three agents, called with Parser.ProcessEvent as
\* the handler and no agent timeout
InitRun ==
  /\ pc = "spawn"
  /\ agentName = ""
  /\ sessionGiven = FALSE
  /\ failing = "none"
  /\ deleteBrowser = FALSE
  /\ timeoutSet = FALSE
  /\ created = FALSE
  /\ cleanupDeferred = FALSE
  /\ sessionDeleted = FALSE
  /\ exitStatus = -1
  /\ vendor \in Vendors
  /\ items \in Outputs(vendor, MaxItems)
  /\ RunInit

SpecRun == InitRun /\ [][RunNext]_vars

\* once the deadline has passed, the blocked call of Run (Spawn or
\* stream.Next) returns with the context's error: the step of Spawn failing
\* or of StreamError, named by what it does to pc
DeadlineAbort ==
  /\ deadline
  /\ pc \in {"spawn", "streaming"}
  /\ pc' = "returned"

\* the program, with the Go runtime's guarantee that a call blocked on a
\* cancelled context returns
SpecFair == Spec /\ WF_pc(DeadlineAbort)

(***************************************************************************)
(* Parser.ProcessEvent applied to one tool_call started event whose code   *)
(* argument has CodeLen bytes                                              *)
(***************************************************************************)

\* the length of the code argument
CodeLen == 200

Heads == {0, 1, 2, 76, 77, 78, 79, 80, 81, 100, CodeLen - 1, CodeLen}
Gaps == {0, 1, 2, 3, 100, 118, 119, 120, 121, 122, 123, 124, CodeLen}

\* a code argument: head bytes "a", then gap bytes ws, then bytes "a"
PreviewArgs ==
  {a \in [head : Heads, gap : Gaps, ws : {" ", "\n"}, field : {"name", "toolName"}] :
     a.head + a.gap <= CodeLen}

MakeCode(a) ==
  [i \in 1..CodeLen |-> IF i <= a.head THEN "a"
                        ELSE IF i <= a.head + a.gap THEN a.ws ELSE "a"]

ToolEvent(a) ==
  [ZeroEvent EXCEPT !.Type = <<"tool_call">>,
                    !.Subtype = <<"started">>,
                    !.Name = IF a.field = "name" THEN <<"x">> ELSE <<>>,
                    !.ToolName = IF a.field = "toolName" THEN <<"x">> ELSE <<>>,
                    !.Code = MakeCode(a)]

InitPreview ==
  /\ pc = "preview"
  /\ agentName = ""
  /\ sessionGiven = FALSE
  /\ failing = "none"
  /\ deleteBrowser = FALSE
  /\ timeoutSet = FALSE
  /\ created = FALSE
  /\ cleanupDeferred = FALSE
  /\ sessionDeleted = FALSE
  /\ exitStatus = -1
  /\ vendor = "cursor"
  /\ items = <<>>
  /\ arg \in PreviewArgs
  /\ ret = NoReturn
  /\ wire = <<>>
  /\ deadline = FALSE
  /\ jsonBuffer = <<>>
  /\ exitCode = 0
  /\ exitSignal = -1
  /\ handled = <<>>
  /\ lastPrintedMessage = <<>>
  /\ runCode = 0
  /\ runErr = "nil"

\* parser.ProcessEvent(event)
ApplyProcessEvent ==
  /\ pc = "preview"
  /\ pc' = "previewed"
  /\ \E f \in {HandleAll(<<ToolEvent(arg)>>, handled, lastPrintedMessage)} :
        /\ handled' = f.handled
        /\ lastPrintedMessage' = f.last
  /\ UNCHANGED <<mainVars, inputVars, wire, deadline, jsonBuffer, exitCode, exitSignal,
                 runCode, runErr>>

SpecPreview == InitPreview /\ [][ApplyProcessEvent]_vars

(***************************************************************************)
(* Parser.ProcessLine applied to one line                                  *)
(***************************************************************************)

\* strings.HasPrefix(s, p)
HasPrefix(s, p) == Len(s) >= Len(p) /\ SubSeq(s, 1, Len(p)) = p

\* json.Unmarshal([]byte(line), &event): the whole input must be one JSON
\* value, white space around it allowed, and the value must fit the struct
UnmarshalLine(line) ==
  LET r == ReadValue(line, 0) IN
  IF r.st # "ok" \/ SkipSpace(line, r.next + 1) <= Len(line)
  THEN [ev |-> ZeroEvent, err |-> TRUE]
  ELSE UnmarshalStreamEvent(r.val)

\* Parser.ParseLine: some is FALSE for the nil event
ParseLine(line) ==
  LET t == TrimSpace(line) IN
  IF t = <<>> \/ HasPrefix(t, <<"[", "?">>) \/ HasPrefix(t, <<"ESC", "[">>)
  THEN [some |-> FALSE, ev |-> ZeroEvent, err |-> FALSE]
  ELSE LET u == UnmarshalLine(t) IN [some |-> ~u.err, ev |-> u.ev, err |-> u.err]

\* Parser.ProcessLine: the events processed, the line echoed and the value
\* returned
ProcessLine(line) ==
  LET p == ParseLine(line)
      t == TrimSpace(line)
  IN IF p.err
     THEN [events |-> <<>>,
           ret |-> [ok |-> FALSE,
                    echo |-> IF t # <<>> /\ ~HasPrefix(t, <<"[", "?">>) THEN t ELSE <<>>]]
     ELSE [events |-> IF p.some THEN <<p.ev>> ELSE <<>>,
           ret |-> [ok |-> TRUE, echo |-> <<>>]]

\* the lines: outputs of at most MaxItems values, and those that start with
\* a control sequence without its first byte
Lines ==
  LET whole == {WireOf("cursor", s) : s \in Streams(MaxItems)}
  IN whole \cup {Tail(w) : w \in {x \in whole : x # <<>> /\ Head(x) = "ESC"}}

InitLine ==
  /\ pc = "line"
  /\ agentName = ""
  /\ sessionGiven = FALSE
  /\ failing = "none"
  /\ deleteBrowser = FALSE
  /\ timeoutSet = FALSE
  /\ created = FALSE
  /\ cleanupDeferred = FALSE
  /\ sessionDeleted = FALSE
  /\ exitStatus = -1
  /\ vendor = "cursor"
  /\ items = <<>>
  /\ arg \in Lines
  /\ ret = NoReturn
  /\ wire = <<>>
  /\ deadline = FALSE
  /\ jsonBuffer = <<>>
  /\ exitCode = 0
  /\ exitSignal = -1
  /\ handled = <<>>
  /\ lastPrintedMessage = <<>>
  /\ runCode = 0
  /\ runErr = "nil"

\* parser.ProcessLine(line)
ApplyProcessLine ==
  /\ pc = "line"
  /\ pc' = "lined"
  /\ \E r \in {ProcessLine(arg)} :
        /\ ret' = r.ret
        /\ \E f \in {HandleAll(r.events, handled, lastPrintedMessage)} :
              /\ handled' = f.handled
              /\ lastPrintedMessage' = f.last
  /\ UNCHANGED <<mainVars, vendor, items, arg, wire, deadline, jsonBuffer, exitCode,
                 exitSignal, runCode, runErr>>

SpecLine == InitLine /\ [][ApplyProcessLine]_vars

(***************************************************************************)
(* The handler main passes to Run, called for a sequence of events         *)
(***************************************************************************)

\* the most handler calls in one run
MaxEvents == 3

\* texts of assistant fragments
Texts ==
  {<<>>, <<" ">>, <<"a">>, <<" ", "a", "\n">>, <<"a", "\n", "b">>,
   <<"a", "\n", "\n", "b">>, <<"a", "\n", "\n", "\n", "b">>}

\* one element of StreamEvent.Message.Content
Fragment(t) == [Type |-> <<"text">>, Text |-> t]

\* assistant events: no fragment, one fragment, two fragments
AssistantEvents ==
  {[ZeroEvent EXCEPT !.Type = <<"assistant">>]}
    \cup {[ZeroEvent EXCEPT !.Type = <<"assistant">>, !.Content = <<Fragment(t)>>] : t \in Texts}
    \cup {[ZeroEvent EXCEPT !.Type = <<"assistant">>,
                            !.Content = <<Fragment(<<"a">>), Fragment(<<"a">>)>>],
          [ZeroEvent EXCEPT !.Type = <<"assistant">>,
                            !.Content = <<Fragment(<<"a", "\n", "\n", "b">>),
                                          Fragment(<<"b">>)>>]}

\* a tool_call event
ToolCall(s, n, t, c) ==
  [ZeroEvent EXCEPT !.Type = <<"tool_call">>, !.Subtype = s, !.Name = n,
                    !.ToolName = t, !.Code = c]

\* tool_call events: started ones with each combination of the two name
\* fields and a code argument that is missing, white space or two lines;
\* completed ones and one without a subtype
ToolEvents ==
  {ToolCall(<<"started">>, n, t, c) :
     n \in {<<>>, <<"x">>}, t \in {<<>>, <<"y">>},
     c \in {<<>>, <<" ">>, <<"a", "\n", "b">>}}
    \cup {ToolCall(<<"completed">>, n, t, <<"a", "\n", "b">>) :
            n \in {<<>>, <<"x">>}, t \in {<<>>, <<"y">>}}
    \cup {ToolCall(<<>>, <<"x">>, <<"y">>, <<"a", "\n", "b">>)}

\* events of the skipped types and of a type ProcessEvent has no case for,
\* each with a text fragment
OtherEvents ==
  {[ZeroEvent EXCEPT !.Type = <<t>>, !.Content = <<Fragment(<<"a">>)>>] :
     t \in {"system", "user", "thinking", "result", "status"}}

Events == AssistantEvents \cup ToolEvents \cup OtherEvents

\* parser := stream.NewParser(): main has created the parser and Run is
\* about to call the handler
InitHandler ==
  /\ pc = "handling"
  /\ agentName = ""
  /\ sessionGiven = FALSE
  /\ failing = "none"
  /\ deleteBrowser = FALSE
  /\ timeoutSet = FALSE
  /\ created = FALSE
  /\ cleanupDeferred = FALSE
  /\ sessionDeleted = FALSE
  /\ exitStatus = -1
  /\ vendor = "cursor"
  /\ items = <<>>
  /\ RunInit

\* func(event agent.StreamEvent) { parser.ProcessEvent(event) }
HandlerCall(e) ==
  /\ pc = "handling"
  /\ Len(handled) < MaxEvents
  /\ \E f \in {HandleAll(<<e>>, handled, lastPrintedMessage)} :
        /\ handled' = f.handled
        /\ lastPrintedMessage' = f.last
  /\ UNCHANGED <<pc, mainVars, inputVars, wire, deadline, jsonBuffer, exitCode,
                 exitSignal, runCode, runErr>>

SpecHandler == InitHandler /\ [][\E e \in Events : HandlerCall(e)]_vars

(***************************************************************************)
(* OpenCodeAgent.Run's loop body applied to a sequence of opencode events: *)
(* Decode, convertEvent, handler                                           *)
(***************************************************************************)

\* the most opencode events in one run
MaxConverted == 2

\* the members ms of a JSON object, separated by commas
RECURSIVE JoinMembers(_)
JoinMembers(ms) ==
  IF ms = <<>> THEN <<>>
  ELSE IF Len(ms) = 1 THEN ms[1]
  ELSE ms[1] \o <<",">> \o JoinMembers(Tail(ms))

ObjOf(ms) == <<"{">> \o JoinMembers(ms) \o <<"}">>

\* an optional member: left out when its value is "none"
Opt(key, val) == IF val = "none" THEN <<>> ELSE <<KV(<<key>>, Str(<<val>>))>>

\* the events opencode writes: type, part.state.status, part.tool and
\* part.state.input.code, each of the last three possibly missing
OCArgs ==
  [type : {"tool_use", "text", "step_start"},
   status : {"none", "running", "completed", "error"},
   tool : {"none", "x"},
   code : {"none", "c"}]

\* the JSON object of one event as opencode run --format json writes it
OCWire(a) ==
  ObjOf(<<TypeIs(a.type),
          KV(<<"part">>,
             ObjOf(Opt("tool", a.tool) \o
                   <<KV(<<"state">>,
                        ObjOf(Opt("status", a.status) \o
                              <<KV(<<"input">>, ObjOf(Opt("code", a.code)))>>))>>))>>)

InitConvert ==
  /\ pc = "converting"
  /\ agentName = ""
  /\ sessionGiven = FALSE
  /\ failing = "none"
  /\ deleteBrowser = FALSE
  /\ timeoutSet = FALSE
  /\ created = FALSE
  /\ cleanupDeferred = FALSE
  /\ sessionDeleted = FALSE
  /\ exitStatus = -1
  /\ vendor = "opencode"
  /\ items = <<>>
  /\ arg \in UNION {[1..k -> OCArgs] : k \in 0..MaxConverted}
  /\ ret = NoReturn
  /\ wire = <<>>
  /\ deadline = FALSE
  /\ jsonBuffer = <<>>
  /\ exitCode = 0
  /\ exitSignal = -1
  /\ handled = <<>>
  /\ lastPrintedMessage = <<>>
  /\ runCode = 0
  /\ runErr = "nil"

\* decoder.Decode(&ocEvent); streamEvent := a.convertEvent(ocEvent);
\* handler(streamEvent), for the next event of the sequence
ConvertCall ==
  /\ pc = "converting"
  /\ Len(handled) < Len(arg)
  /\ LET u == UnmarshalOpenCodeEvent(ReadValue(OCWire(arg[Len(handled) + 1]), 0).val) IN
     /\ ~u.err
     /\ \E f \in {HandleAll(<<convertEvent(u.ev)>>, handled, lastPrintedMessage)} :
           /\ handled' = f.handled
           /\ lastPrintedMessage' = f.last
  /\ UNCHANGED <<pc, mainVars, inputVars, wire, deadline, jsonBuffer, exitCode,
                 exitSignal, runCode, runErr>>

SpecConvert == InitConvert /\ [][ConvertCall]_vars

(***************************************************************************)
(* Properties                                                              *)
(***************************************************************************)

\* the event the vendor's struct gives for one catalogue item parsed alone
EventOf(v, item) == DecodeFor(v, ReadValue(Wire(v, item), 0).val).ev

\* the catalogue items that are JSON objects
JSONObjects == GoodObjects \cup {"badtype"}

\* Run has returned after the exit event, and every byte of the output was
\* streamed before it
ReturnedAfterExit == pc = "returned" /\ exitSignal >= 0 /\ wire = <<>>

\* C1: for every output that is a sequence of N valid back-to-back JSON
\* objects and every way of splitting it into data chunks, the decode loop of
\* Run (per-chunk parse plus final flush) has called the handler exactly N
\* times when Run returns, in the original order, with the events that parsing
\* each object of the unsplit output gives.
C1_EveryObjectDelivered ==
  (ReturnedAfterExit /\ \A i \in 1..Len(items) : items[i] \in JSONObjects) =>
     /\ Len(handled) = Len(items)
     /\ \A i \in 1..Len(handled) : handled[i].ev = EventOf(vendor, items[i])

\* an assistant event with one text fragment that is not empty after trimming
OneFragment(e) ==
  /\ e.Type = <<"assistant">>
  /\ Len(e.Content) = 1
  /\ TrimSpace(e.Content[1].Text) # <<>>

\* C2: two consecutive assistant events whose text fragments are identical
\* after trimming produce exactly one display line, not two, whatever the text
\* (texts with blank lines included).  Stated for the first assistant events
\* of a run, where nothing was printed before.
C2_RepeatPrintedOnce ==
  \A i \in 1..(Len(handled) - 1) :
     ( /\ OneFragment(handled[i].ev)
       /\ OneFragment(handled[i + 1].ev)
       /\ TrimSpace(handled[i].ev.Content[1].Text) = TrimSpace(handled[i + 1].ev.Content[1].Text)
       /\ \A j \in 1..(i - 1) : handled[j].ev.Type # <<"assistant">> )
     => Len(handled[i].lines) + Len(handled[i + 1].lines) = 1

RunOver == pc \in {"returned", "exited"}

\* C3: when an agent timeout is configured and the deadline passes before any
\* exit event is received, Run terminates, and it returns a non-nil error:
\* never a normal exit code with a nil error.
C3_TimeoutEndsRun ==
  /\ [](deadline => ~(RunOver /\ runErr = "nil"))
  /\ [](deadline => <>RunOver)

C3_Witness ==
  /\ timeoutSet
  /\ deadline
  /\ exitSignal = -1
  /\ pc = "returned"
  /\ runErr = "stream"

\* C4: with -d and a session created by this invocation, the session has been
\* deleted when the process exits, on every path through Run: exit code 0,
\* nonzero exit code, Run returning an error.
C4_SessionDeletedOnExit ==
  (pc = "exited" /\ created /\ deleteBrowser /\ cleanupDeferred) => sessionDeleted

\* C5: for every exit code c carried by the exit event, Run returns exactly c
\* with a nil error, and the program then exits with status c (0 for 0).
C5_ExitCodePassedThrough ==
  exitSignal >= 0 =>
     /\ RunOver
     /\ runCode = exitSignal
     /\ runErr = "nil"
     /\ pc = "exited" => exitStatus = exitSignal

C5_Witness ==
  /\ pc = "exited"
  /\ exitSignal = 255
  /\ exitStatus = 255

\* the assistant object up to the middle of the key "message"
C6_FirstChunk(v) ==
  LET w == Wire(v, "assistant")
      cut == CHOOSE i \in 1..Len(w) : w[i] = "mess"
  IN SubSeq(w, 1, cut)

\* the first chunk has been fed: the buffer holds the object cut inside a key
C6_Split ==
  /\ pc = "streaming"
  /\ vendor \in {"cursor", "claude"}
  /\ items = <<"assistant", "result">>
  /\ jsonBuffer = C6_FirstChunk(vendor)
  /\ jsonBuffer \o wire = WireOf(vendor, items)
  /\ handled = <<>>

\* C6: an assistant object whose text is two lines separated by a blank line
\* is split across two data chunks in the middle of a key, and the second
\* chunk also holds a back-to-back result object: the output is exactly one
\* display line, a multi-line block with the blank line collapsed to one
\* newline, and nothing is printed for the result event.
C6_SplitKeyScenario ==
  [][(C6_Split /\ pc' = "streaming" /\ wire' = <<>>) =>
       /\ Len(handled') = 2
       /\ handled'[1].lines =
            <<[style |-> "block", head |-> <<>>, body |-> <<"Hi", "\n", "there">>]>>
       /\ handled'[2].ev.Type = <<"result">>
       /\ handled'[2].lines = <<>>
       /\ jsonBuffer' = <<>>]_vars

C6_Witness == C6_Split /\ vendor = "cursor"

Skipped == {<<"system">>, <<"user">>, <<"thinking">>, <<"result">>}

EmptyPayload(e) ==
  /\ e.Content = <<>>
  /\ e.Name = <<>>
  /\ e.ToolName = <<>>
  /\ e.Code = <<>>

\* the type member of a catalogue item
RawType(v, item) == StrVal(Field(ReadValue(Wire(v, item), 0).val, <<"type">>))

\* C7 as claimed: for every vendor, an event of type system, user, thinking
\* or result reaches the handler with empty payload fields, whatever the raw
\* object carried, and ProcessEvent prints nothing for it.
C7_SkippedEventsEmpty ==
  \A i \in 1..Len(handled) :
     handled[i].ev.Type \in Skipped =>
        EmptyPayload(handled[i].ev) /\ handled[i].lines = <<>>

\* C7 as amended: for every vendor, a raw event of type system, user,
\* thinking or result reaches the handler with the same type and ProcessEvent
\* prints nothing for it; its payload fields are empty for opencode, while for
\* cursor and claude the event is the raw object as decoded, payload included.
C7_SkippedEventsSilent ==
  /\ \A i \in 1..Len(handled) :
        handled[i].ev.Type \in Skipped =>
           /\ handled[i].lines = <<>>
           /\ vendor = "opencode" => EmptyPayload(handled[i].ev)
  /\ (\A k \in 1..Len(items) : items[k] \in GoodObjects) =>
        \A i \in 1..Len(handled) :
           RawType(vendor, items[i]) \in Skipped =>
              /\ handled[i].ev.Type = RawType(vendor, items[i])
              /\ vendor # "opencode" => handled[i].ev = EventOf(vendor, items[i])

C7_Witness ==
  /\ vendor = "cursor"
  /\ \E i \in 1..Len(handled) :
        /\ handled[i].ev.Type = <<"user">>
        /\ handled[i].ev.Content # <<>>
        /\ handled[i].lines = <<>>

\* the code portion of the line printed for the tool_call event
PreviewBody == handled[1].lines[1].body

EndsWithEllipsis(b) == Len(b) >= 3 /\ SubSeq(b, Len(b) - 2, Len(b)) = Ellipsis

\* C8 as claimed: for every tool_call started event with a non-empty tool
\* name and a 200-character code argument, the code portion of the display
\* line is exactly 80 characters long, ends with the 3-character ellipsis and
\* has every internal newline replaced by a single space.
C8_PreviewIsEighty ==
  pc = "previewed" =>
     /\ Len(handled[1].lines) = 1
     /\ Len(PreviewBody) = 80
     /\ EndsWithEllipsis(PreviewBody)
     /\ \A i \in 1..Len(PreviewBody) : PreviewBody[i] # "\n"

\* the code argument with its white space run collapsed, computed from the
\* shape of the argument
Collapsed(a) ==
  LET tail == CodeLen - a.head - a.gap
      sep == IF a.gap > 0 /\ a.head > 0 /\ tail > 0 THEN <<" ">> ELSE <<>>
  IN [i \in 1..a.head |-> "a"] \o sep \o [i \in 1..tail |-> "a"]

\* C8 as amended: the code portion is the code argument with every run of
\* white space (newlines included) replaced by one space and leading and
\* trailing white space removed; when that text is longer than 80 bytes the
\* code portion is its first 77 bytes followed by "...", exactly 80 bytes;
\* otherwise it is that text unchanged, without an ellipsis.
C8_PreviewTruncated ==
  pc = "previewed" =>
     /\ Len(handled[1].lines) = 1
     /\ handled[1].lines[1].style = "tool_code"
     /\ handled[1].lines[1].head = <<"x">>
     /\ IF Len(Collapsed(arg)) > 80
        THEN /\ Len(PreviewBody) = 80
             /\ SubSeq(PreviewBody, 1, 77) = SubSeq(Collapsed(arg), 1, 77)
             /\ EndsWithEllipsis(PreviewBody)
        ELSE PreviewBody = Collapsed(arg)

C8_Witness ==
  /\ pc = "previewed"
  /\ arg.ws = "\n"
  /\ arg.gap = 1
  /\ arg.head = 100
  /\ Len(PreviewBody) = 80

\* a chunk that is only white space, or only a terminal control sequence
IsArtefact(chunk) ==
  \/ chunk # <<>> /\ \A i \in 1..Len(chunk) : chunk[i] \in Space
  \/ chunk = Wire(vendor, "control")

\* C9: feeding a data chunk that consists only of a terminal control sequence
\* or only of white space calls the handler zero times, raises no error, and
\* leaves the decode buffer equal to its previous content followed by the
\* chunk's bytes.
C9_ArtefactChunkBuffered ==
  [][(/\ pc = "streaming"
      /\ pc' = "streaming"
      /\ Len(wire') < Len(wire)
      /\ IsArtefact(SubSeq(wire, 1, Len(wire) - Len(wire')))) =>
       /\ handled' = handled
       /\ jsonBuffer' = jsonBuffer \o SubSeq(wire, 1, Len(wire) - Len(wire'))
       /\ runErr' = "nil"
       /\ lastPrintedMessage' = lastPrintedMessage]_vars

\* a white space chunk has been fed to the empty buffer and is kept
C9_Witness ==
  /\ pc = "streaming"
  /\ items # <<>>
  /\ items[1] = "newline"
  /\ handled = <<>>
  /\ jsonBuffer = <<"\r", "\n">>

\* C10: a complete JSON value at the front of the buffer that does not match
\* the vendor's struct (missing fields, a field of an unexpected JSON type, a
\* non-object value) never stalls the run: it yields an event, is removed
\* from the buffer, and every later object is still decoded.
C10_MismatchNeverStalls ==
  (ReturnedAfterExit /\ \A i \in 1..Len(items) : items[i] \in GoodObjects \cup BadValues) =>
     /\ Len(handled) = Len(items)
     /\ jsonBuffer = <<>>

\* what Run returns for a failure that is no timeout: Spawn failing, and the
\* stream failing in transport
OtherFailures == {<<1, "spawn">>, <<1, "stream">>}

\* C11: when the configured timeout elapses first, what Run returns to its
\* caller is specific to the timeout: it is a non-nil error that differs from
\* what Run returns for a transport failure of the stream, and from the
\* result of a run that ended with a nonzero exit code.
C11_TimeoutErrorDistinct ==
  (pc = "returned" /\ timeoutSet /\ deadline) =>
     /\ runErr # "nil"
     /\ <<runCode, runErr>> \notin OtherFailures

\* C12: if spawning the agent process fails, Run returns an error at once
\* with exit code 1: the spawn is not tried again, the output stream is never
\* opened (no byte of output is streamed or buffered, no exit event is
\* received) and the handler is never called.
C12_SpawnFailureIsFinal ==
  runErr = "spawn" =>
     /\ RunOver
     /\ runCode = 1
     /\ wire = <<>>
     /\ jsonBuffer = <<>>
     /\ exitSignal = -1
     /\ handled = <<>>

C12_Witness ==
  /\ pc = "returned"
  /\ runErr = "spawn"
  /\ runCode = 1
  /\ items # <<>>
  /\ handled = <<>>

\* the types ProcessEvent has a case for
KnownTypes == Skipped \cup {<<"tool_call">>, <<"assistant">>}

\* lastPrintedMessage before the i-th handler call of a run
LastBefore(i) == IF i = 1 THEN <<>> ELSE handled[i - 1].last

C14_AgentFlagResolved ==
  /\ (pc = "main" /\ agentName \in Vendors) =>
        /\ getAgent(agentName) = agentName
        /\ ENABLED (MainStart /\ vendor' = agentName)
  /\ (pc # "main" /\ agentName \notin Vendors) =>
        /\ pc = "exited"
        /\ exitStatus = 1
        /\ vendor = ""
        /\ ~created
        /\ handled = <<>>

\* where main is while it sets up a session of its own
SetupSteps == {"setup", "pin", "install", "playwriter", "relay", "mcp"}

\* C15: when an existing session id is given with -s, no setup step runs
\* before the agent is run (no browser is created, no agent install, no
\* Playwriter build, no relay start, no MCP configuration), and the session is
\* never deleted by this invocation, even when -d is also given.
C15_ReusedSessionKept ==
  sessionGiven =>
     /\ pc \notin SetupSteps
     /\ ~created
     /\ ~cleanupDeferred
     /\ ~sessionDeleted

C15_Witness ==
  /\ sessionGiven
  /\ deleteBrowser
  /\ pc = "exited"
  /\ exitSignal = 0
  /\ exitStatus = 0
  /\ ~sessionDeleted

\* the line is one JSON value, white space around it allowed
ValidJSON(line) ==
  LET r == ReadValue(line, 0) IN
  r.st = "ok" /\ SkipSpace(line, r.next + 1) > Len(line)

\* the line starts with a terminal control sequence prefix
ControlLine(line) ==
  HasPrefix(TrimSpace(line), <<"[", "?">>) \/ HasPrefix(TrimSpace(line), <<"ESC", "[">>)

\* C16: for every input line, ProcessLine returns true if and only if the
\* line is valid JSON; in particular it returns false for an empty line and
\* for a line that starts with a terminal control sequence prefix.
C16_TrueIffValidJSON ==
  pc = "lined" =>
     /\ ret.ok <=> ValidJSON(arg)
     /\ TrimSpace(arg) = <<>> => ~ret.ok
     /\ ControlLine(arg) => ~ret.ok

\* the bytes Run has received so far
Received == SubSeq(WireOf(vendor, items), 1, Len(WireOf(vendor, items)) - Len(wire))

\* the buffer is the bytes received so far without a prefix, and that prefix
\* is the values handed to the handler so far
BufferIsRest ==
  \E n \in 0..Len(Received) :
     /\ jsonBuffer = SubSeq(Received, n + 1, Len(Received))
     /\ LET d == DecodeLoop(vendor, SubSeq(Received, 1, n), 0, <<>>)
        IN /\ d.consumed = n
           /\ d.events = [i \in 1..Len(handled) |-> handled[i].ev]

\* C17: after every decode attempt in Run, the decode buffer is exactly the
\* bytes received so far minus the prefix of values already delivered to the
\* handler, and it never has a complete parseable JSON value at its front.
\* Stated for outputs without a top-level number, whose end no prefix shows.
C17_BufferHoldsNoValue ==
  (pc = "streaming" /\ \A i \in 1..Len(items) : items[i] # "number") =>
     /\ BufferIsRest
     /\ ReadValue(jsonBuffer, 0).st # "ok"

IsGoodObject(item) == item \in GoodObjects

\* the events of the objects of the output, in the order of the output
EventsOf(v, its) ==
  LET good == SelectSeq(its, IsGoodObject)
  IN [i \in 1..Len(good) |-> EventOf(v, good[i])]

\* C18: the decoder tolerates terminal control sequences between JSON
\* objects: every complete JSON object of the stream, also one that arrives
\* after a control sequence (in the same chunk or a later one), has been
\* delivered to the handler when Run returns.
C18_ControlSequencesTolerated ==
  (ReturnedAfterExit /\ \A i \in 1..Len(items) : items[i] \in GoodObjects \cup {"control"}) =>
     [i \in 1..Len(handled) |-> handled[i].ev] = EventsOf(vendor, items)

\* a is b with some elements left out, the order kept
RECURSIVE IsSubseq(_, _)
IsSubseq(a, b) ==
  IF a = <<>> THEN TRUE
  ELSE IF b = <<>> THEN FALSE
  ELSE IF Head(a) = Head(b) THEN IsSubseq(Tail(a), Tail(b))
  ELSE IsSubseq(a, Tail(b))

\* the texts of an event's fragments as ProcessEvent shows them
FragmentTexts(e) ==
  [j \in 1..Len(e.Content) |-> CollapseNewlines(TrimSpace(e.Content[j].Text))]

\* the lines of one handler call are texts of the event's fragments, in the
\* order of the fragments
InFragmentOrder(h) ==
  h.ev.Type = <<"assistant">> =>
     IsSubseq([k \in 1..Len(h.lines) |-> h.lines[k].body], FragmentTexts(h.ev))

HandledEvents == [i \in 1..Len(handled) |-> handled[i].ev]

\* C19: within one run, every object decoded from a data chunk has been
\* passed to the handler before the next stream unit is requested: while Run
\* waits for the next unit, the handler calls made are exactly the objects
\* decodable from the bytes received, in the order of the byte stream; the
\* record of handler calls only grows at its end; and within one assistant
\* event the display lines are in the order of its text fragments.
C19_HandledInStreamOrder ==
  /\ [](pc = "streaming" =>
          HandledEvents = DecodeLoop(vendor, Received, 0, <<>>).events)
  /\ [](\A i \in 1..Len(handled) : InFragmentOrder(handled[i]))
  /\ [][/\ Len(handled') >= Len(handled)
        /\ SubSeq(handled', 1, Len(handled)) = handled]_vars

C19_Witness ==
  /\ pc = "streaming"
  /\ vendor = "cursor"
  /\ Len(handled) = 2
  /\ handled[1].ev.Type = <<"assistant">>
  /\ Len(handled[1].lines) = 2
  /\ handled[1].lines[1].body = <<"a">>
  /\ handled[1].lines[2].body = <<"b">>
  /\ handled[2].ev.Type = <<"result">>

\* the output from its k-th value on
Rest(k) == SubSeq(items, k, Len(items))

\* C20: after the streaming loop has ended with the exit event, the remaining
\* decode buffer is parsed once more: every complete object still in it is
\* delivered to the handler (after the objects delivered while streaming),
\* and what is left over is dropped without an error and without changing
\* the exit code Run returns.
C20_FlushDeliversRest ==
  ReturnedAfterExit =>
     /\ runErr = "nil"
     /\ runCode = exitSignal
     /\ \A k \in 1..Len(items) :
           jsonBuffer = WireOf(vendor, Rest(k)) =>
              HandledEvents =
                EventsOf(vendor, SubSeq(items, 1, k - 1)) \o EventsOf(vendor, Rest(k))

\* C21: once the exit event is received the streaming loop ends: Run is over
\* and no further stream unit is requested (the bytes not yet delivered stay
\* undelivered), the handler calls made in the run are exactly the objects
\* decodable from the bytes received before the exit event, so data carried by
\* the exit event or by a later event is never decoded, and the recorded exit
\* code is the one of that exit event and never changes afterwards.
C21_ExitEndsLoop ==
  /\ [](exitSignal >= 0 =>
          /\ RunOver
          /\ exitCode = exitSignal
          /\ HandledEvents = DecodeLoop(vendor, Received, 0, <<>>).events)
  /\ [][exitSignal >= 0 =>
          /\ wire' = wire
          /\ jsonBuffer' = jsonBuffer
          /\ handled' = handled
          /\ exitCode' = exitCode
          /\ exitSignal' = exitSignal]_vars

\* the exit event came while a complete object was still undelivered
C21_Witness ==
  /\ pc = "returned"
  /\ exitSignal = 2
  /\ exitCode = 2
  /\ items = <<"assistant", "result">>
  /\ wire = Wire(vendor, "result")
  /\ Len(handled) = 1
  /\ handled[1].ev.Type = <<"assistant">>

\* the i-th handler call printed nothing for an assistant event
NothingPrinted(i) == handled[i].ev.Type = <<"assistant">> /\ handled[i].lines = <<>>

\* lastPrintedMessage is changed only by a handler call that prints an
\* assistant fragment
LastChangedOnlyByPrint ==
  \A i \in 1..Len(handled) :
     /\ handled[i].last # LastBefore(i) =>
           /\ handled[i].ev.Type = <<"assistant">>
           /\ handled[i].lines # <<>>
     /\ (handled[i].ev.Type # <<"assistant">> \/ NothingPrinted(i)) =>
           handled[i].last = LastBefore(i)

\* an assistant text that was printed, then tool_call events only, then the
\* same text again: the repeat prints nothing
RepeatAfterToolsSuppressed ==
  \A i \in 1..Len(handled) : \A k \in (i + 1)..Len(handled) :
     ( /\ OneFragment(handled[i].ev)
       /\ OneFragment(handled[k].ev)
       /\ TrimSpace(handled[i].ev.Content[1].Text) = TrimSpace(handled[k].ev.Content[1].Text)
       /\ handled[i].lines # <<>>
       /\ \A j \in (i + 1)..(k - 1) : handled[j].ev.Type = <<"tool_call">> )
     => handled[k].lines = <<>>

\* C22: lastPrintedMessage is changed only when an assistant text fragment is
\* printed: events of type system, user, thinking, result, tool_call and of
\* unknown types, and assistant fragments skipped as empty or duplicate, leave
\* it unchanged, so an assistant text repeated after intervening tool_call
\* events is still suppressed.
C22_LastChangedOnlyByPrint ==
  /\ LastChangedOnlyByPrint
  /\ RepeatAfterToolsSuppressed

\* the display lines that are assistant fragments
IsFragmentLine(l) == l.style \in {"block", "marker"}

\* the assistant fragments printed by the handler calls h, in print order
RECURSIVE PrintedFragments(_)
PrintedFragments(h) ==
  IF h = <<>> THEN <<>>
  ELSE PrintedFragments(SubSeq(h, 1, Len(h) - 1)) \o SelectSeq(h[Len(h)].lines, IsFragmentLine)

\* C23: in every reachable state of a run, lastPrintedMessage is empty if no
\* assistant fragment has been printed in this run, and otherwise it equals
\* the most recently printed assistant fragment exactly as it was emitted:
\* without leading or trailing white space and without a blank line.
C23_LastIsLastEmitted ==
  LET printed == PrintedFragments(handled) IN
  /\ lastPrintedMessage = IF printed = <<>> THEN <<>> ELSE printed[Len(printed)].body
  /\ TrimSpace(lastPrintedMessage) = lastPrintedMessage
  /\ ~ContainsNLNL(lastPrintedMessage)

\* a text with a blank line was printed collapsed and is remembered
\* collapsed, also after a tool_call line was printed
C23_Witness ==
  /\ pc = "handling"
  /\ Len(handled) = 2
  /\ handled[1].ev.Type = <<"assistant">>
  /\ handled[1].ev.Content = <<Fragment(<<"a", "\n", "\n", "b">>)>>
  /\ handled[2].ev.Type = <<"tool_call">>
  /\ Len(handled[2].lines) = 1
  /\ lastPrintedMessage = <<"a", "\n", "b">>

\* the assistant fragments printed in the run so far
AllPrinted == PrintedFragments(handled)

HasNewline(b) == \E k \in 1..Len(b) : b[k] = "\n"

\* C24: every printed assistant fragment is non-empty, has no leading or
\* trailing white space and contains no two consecutive newlines; it is
\* rendered as a standalone block exactly when it contains a newline after
\* collapsing, and with the leading marker exactly when it is a single line.
C24_PrintedFragmentShape ==
  \A n \in 1..Len(AllPrinted) :
     LET b == AllPrinted[n].body IN
     /\ b # <<>>
     /\ b[1] \notin Space
     /\ b[Len(b)] \notin Space
     /\ \A k \in 1..(Len(b) - 1) : ~(b[k] = "\n" /\ b[k + 1] = "\n")
     /\ AllPrinted[n].style = "block" <=> HasNewline(b)
     /\ AllPrinted[n].style = "marker" <=> ~HasNewline(b)

\* a text with two blank lines was printed as a block, a padded one-line text
\* with the marker
C24_Witness ==
  /\ Len(handled) = 2
  /\ handled[1].ev.Content = <<Fragment(<<"a", "\n", "\n", "\n", "b">>)>>
  /\ handled[1].lines = <<[style |-> "block", head |-> <<>>, body |-> <<"a", "\n", "b">>]>>
  /\ handled[2].ev.Content = <<Fragment(<<" ", "a", "\n">>)>>
  /\ handled[2].lines = <<[style |-> "marker", head |-> <<>>, body |-> <<"a">>]>>

\* C25: for opencode, a tool_use event is converted to a tool_call event, with
\* subtype started exactly when its status field is not "completed" (a missing
\* status included), and no event of another type becomes a tool_call; a
\* tool_use event with status "completed" never produces a display line, and
\* every tool_use event with another status and a non-empty tool name produces
\* exactly one display line, which names the tool.
C25_StartedUnlessCompleted ==
  \A i \in 1..Len(handled) :
     LET a == arg[i]
         h == handled[i]
     IN /\ a.type = "tool_use" =>
              /\ h.ev.Type = <<"tool_call">>
              /\ h.ev.Subtype = <<"started">> <=> a.status # "completed"
              /\ h.ev.Subtype \in {<<"started">>, <<>>}
              /\ a.status = "completed" => h.lines = <<>>
              /\ (a.status # "completed" /\ a.tool # "none") =>
                    /\ Len(h.lines) = 1
                    /\ h.lines[1].head = <<a.tool>>
        /\ a.type # "tool_use" => h.ev.Type # <<"tool_call">>

\* a tool_use event without a status printed its line, a completed one did not
C25_Witness ==
  /\ pc = "converting"
  /\ Len(handled) = 2
  /\ arg[1] = [type |-> "tool_use", status |-> "none", tool |-> "x", code |-> "c"]
  /\ handled[1].ev.Subtype = <<"started">>
  /\ Len(handled[1].lines) = 1
  /\ arg[2] = [type |-> "tool_use", status |-> "completed", tool |-> "x", code |-> "c"]
  /\ handled[2].ev.Subtype = <<>>
  /\ handled[2].lines = <<>>

\* the tool name of a tool_call event: the name field, or the toolName field
\* when name is empty
ResolvedName(e) == IF e.Name # <<>> THEN e.Name ELSE e.ToolName

\* C26: a tool_call event prints exactly one display line when its subtype is
\* started and its resolved tool name is non-empty, and prints nothing
\* otherwise; the tool name resolves to the name field, or to the toolName
\* field when name is empty; the line is "[tool] <name>: <preview>" when the
\* code argument is non-empty and "[tool] <name>" when it is empty.
C26_ToolLineForm ==
  \A i \in 1..Len(handled) :
     LET e == handled[i].ev
         l == handled[i].lines
     IN e.Type = <<"tool_call">> =>
          IF e.Subtype = <<"started">> /\ ResolvedName(e) # <<>>
          THEN /\ Len(l) = 1
               /\ l[1].head = ResolvedName(e)
               /\ IF e.Code # <<>>
                  THEN l[1].style = "tool_code" /\ l[1].body = CodePreview(e.Code)
                  ELSE l[1].style = "tool" /\ l[1].body = <<>>
          ELSE l = <<>>

\* a line without code named by toolName, then a line with a code preview
\* named by name although toolName was set too
C26_Witness ==
  /\ Len(handled) = 2
  /\ handled[1].ev = ToolCall(<<"started">>, <<>>, <<"y">>, <<>>)
  /\ handled[1].lines = <<[style |-> "tool", head |-> <<"y">>, body |-> <<>>]>>
  /\ handled[2].ev = ToolCall(<<"started">>, <<"x">>, <<"y">>, <<"a", "\n", "b">>)
  /\ handled[2].lines = <<[style |-> "tool_code", head |-> <<"x">>, body |-> <<"a", " ", "b">>]>>

\* the number of values of the output whose bytes were all received
RECURSIVE CompleteCount(_)
CompleteCount(k) ==
  IF k < Len(items) /\ Len(WireOf(vendor, SubSeq(items, 1, k + 1))) <= Len(Received)
  THEN CompleteCount(k + 1)
  ELSE k

\* the values of the output received completely
CompleteItems == SubSeq(items, 1, CompleteCount(0))

\* Run returned the stream's error with exit code 1
StreamErrorReturned ==
  runErr = "stream" => (RunOver /\ runCode = 1)

\* C27: when the output stream ends with an error from the execution
\* environment, Run returns exit code 1 with a non-nil error, never a nil
\* error, and the events completely received before the error have been
\* delivered to the handler.
C27_StreamErrorKeepsEvents ==
  /\ StreamErrorReturned
  /\ (pc = "returned" /\ runErr = "stream") =>
        HandledEvents = EventsOf(vendor, CompleteItems)

\* C28: Run returns a nil error only if an exit event was observed on the
\* stream: a stream that ends without an exit event and without a stream
\* error never yields a normal result with exit code 0.
C28_NilErrorNeedsExit ==
  (RunOver /\ runErr = "nil") => exitSignal >= 0

\* the steps of main on a fresh session, each with the step that follows it
SetupOrder ==
  {<<"main", "setup">>, <<"setup", "pin">>, <<"pin", "install">>,
   <<"install", "playwriter">>, <<"playwriter", "relay">>, <<"relay", "mcp">>,
   <<"mcp", "activate">>}

\* the steps whose reported failure ends the program
FatalSteps == {"setup", "install", "playwriter", "relay", "mcp"}

\* where main is before ag.Run is entered
BeforeRun == {"main", "activate", "click"} \cup SetupSteps

\* where the program is once ag.Run was entered
AgentRun == {"spawn", "streaming", "returned"}

\* on a fresh session every step of main is followed by the step order gives
\* for it, unless the step fails and the program exits with status 1; a
\* fatal step that fails is never followed by another step
StepsFollow(order) ==
  (~sessionGiven /\ pc \in BeforeRun /\ pc' # pc) =>
     \/ /\ <<pc, pc'>> \in order
        /\ pc \in FatalSteps => failing # pc
     \/ /\ pc' = "exited"
        /\ exitStatus' = 1
        /\ pc = "main" \/ (pc \in FatalSteps /\ failing = pc)

\* a fatal step that fails keeps the agent from running
FailureIsFinal ==
  [](( ~sessionGiven /\ failing \in FatalSteps) =>
        /\ pc \notin AgentRun
        /\ handled = <<>>
        /\ exitSignal = -1
        /\ pc = "exited" => exitStatus = 1)

IsPrefix(a, b) == Len(a) <= Len(b) /\ SubSeq(b, 1, Len(a)) = a

\* C30: no JSON object of the stream is delivered to the handler more than
\* once in a run: the handler calls are, one for one and in order, a beginning
\* of the objects of the output, in every state of the run, the parses of
\* later chunks and the final parse included; and while Run waits for the
\* next chunk the decode buffer is what was received without the objects
\* already delivered.
C30_DeliveredOnce ==
  /\ IsPrefix(HandledEvents, EventsOf(vendor, items))
  /\ pc = "streaming" => BufferIsRest

\* the first object was delivered and removed, the buffer holds the
\* beginning of the second
C30_Witness ==
  /\ pc = "streaming"
  /\ items = <<"result", "result">>
  /\ Len(handled) = 1
  /\ jsonBuffer = SubSeq(Wire(vendor, "result"), 1, 3)

====
